---- MODULE Spec2Model ----
(***************************************************************************)
(* Model of the region split client of pkg/restore/split_client.go:        *)
(* pdClient.GetStore, pdClient.GetRegionByID, pdClient.SplitRegion,        *)
(* pdClient.sendSplitRegionRequest, pdClient.BatchSplitRegionsWithOrigin   *)
(* and pdClient.BatchSplitRegions.  One behaviour is one split call of one *)
(* client; the storage node and the metadata service (PD) are the          *)
(* environment and answer nondeterministically.                            *)
(***************************************************************************)
EXTENDS Integers, Sequences, FiniteSets, TLC

(* ------------------------------------------------------------------ *)
(* Bounds and program constants                                        *)
(* ------------------------------------------------------------------ *)

\* mutant: the loop stops one attempt early
splitRegionMaxRetryTimeShort == 4 - 1

\* const splitRegionMaxRetryTime = 4
splitRegionMaxRetryTime == 4

\* keys are 0..MaxKey; the region handed to a call covers [0, MaxKey)
MaxKey == 3

\* region epoch versions are 0..MaxVersion
MaxVersion == 2

(* ------------------------------------------------------------------ *)
(* Values                                                              *)
(* ------------------------------------------------------------------ *)

\* a nil *metapb.Peer
NilPeer == [id |-> -1, store |-> -1]
\* the empty message &metapb.Peer{} that PD may answer for "no leader"
ZeroPeer == [id |-> 0, store |-> 0]
P1 == [id |-> 1, store |-> 1]
P2 == [id |-> 2, store |-> 2]
P3 == [id |-> 3, store |-> 3]

\* (*metapb.Peer).GetStoreId: nil-safe getter
GetStoreId(p) == IF p = NilPeer THEN 0 ELSE p.store

Epoch(c, v) == [confVer |-> c, version |-> v]
Epochs == {Epoch(c, v) : c \in 0..1, v \in 0..MaxVersion}

\* a nil *metapb.Region and a nil *RegionInfo
NilRegion == [id |-> -1, startKey |-> -1, endKey |-> -1,
              epoch |-> Epoch(-1, -1), peers |-> << >>]
NilRegionInfo == [region |-> NilRegion, leader |-> NilPeer]

AllPeers == <<P1, P2, P3>>

\* the region the caller wants to split
Region0(ps) == [id |-> 1, startKey |-> 0, endKey |-> MaxKey,
                epoch |-> Epoch(1, 1), peers |-> ps]

\* ascending, duplicate-free, non-empty key lists strictly inside (0, MaxKey)
RECURSIVE SetToSeq(_)
SetToSeq(S) ==
    IF S = {} THEN << >>
    ELSE LET m == CHOOSE x \in S : \A y \in S : x <= y
         IN <<m>> \o SetToSeq(S \ {m})
KeyLists == {SetToSeq(S) : S \in (SUBSET (1..(MaxKey - 1))) \ {{}}}

Range(s) == {s[k] : k \in 1..Len(s)}

\* GetStore callers sharing one client
Workers == {"w1", "w2"}
NoWorker == "none"

\* the store ids the workers ask for
StoreIds == {GetStoreId(P1), GetStoreId(P2)}

\* PD may report a store differently from one fetch to the next: the
\* addresses it reports are 1..MaxStoreAddr
MaxStoreAddr == 2

\* number of GetStore calls the workers make in all
MaxCalls == 3

\* a *metapb.Store
Store(id, addr) == [id |-> id, addr |-> addr]
NoStore == Store(0, 0)

\* longest stores argument of SetStoresLabel
MaxStores == 3

\* the stores arguments of SetStoresLabel
RECURSIVE ListsUpTo(_, _)
ListsUpTo(S, n) ==
    IF n = 0 THEN {<< >>}
    ELSE ListsUpTo(S, n - 1)
         \cup {Append(l, x) : l \in {m \in ListsUpTo(S, n - 1) : Len(m) = n - 1},
                              x \in S}
StoreLists == ListsUpTo({1, 2, 3}, MaxStores)

\* leader addresses, as the pieces of the string: "" , "pd", "pd/",
\* "http://pd", "https://pd//"
LeaderAddrs ==
    {<< >>, <<"pd">>, <<"pd", "/">>, <<"http://", "pd">>,
     <<"https://", "pd", "/", "/">>}

(* ------------------------------------------------------------------ *)
(* State                                                               *)
(* ------------------------------------------------------------------ *)
VARIABLES
    mode,        \* "batch": BatchSplitRegionsWithOrigin, "single": SplitRegion
    tlsConf,     \* pdClient.tlsConf != nil
    storeCache,  \* pdClient.storeCache: the store ids cached
    fetches,     \* store ids fetched from PD by GetStore, in order
    callerInfo,  \* the RegionInfo object the caller passed (by pointer)
    origInfo,    \* its value when the call started
    regionInfo,  \* the RegionInfo the local variable regionInfo points to
    aliased,     \* regionInfo still points to the caller's object
    keys,        \* the split keys of the call
    i,           \* loop counter of sendSplitRegionRequest
    peer,        \* the target peer of the current attempt
    conns,       \* connections opened and not closed yet
    resp,        \* the response of the current attempt
    splitErrors, \* the accumulated multi-error
    resps,       \* every response received by the call, in order
    lastReq,     \* the split request sent last
    prevReq,     \* the split request sent before lastReq
    rpcCount,    \* number of split RPCs issued
    locates,     \* number of GetRegionByID calls made
    located,     \* the answer of the last GetRegionByID call
    result,      \* what the call returned
    pc,
    mu,          \* pdClient.mu: the worker that holds it, or NoWorker
    workerPc,    \* where each worker stands in its GetStore call
    workerArg,   \* the storeID argument of each worker's GetStore call
    storeData,   \* pdClient.storeCache: the store held for each cached id
    calls,       \* the GetStore calls that have returned, in order
    op,          \* the side-channel operation called
    leaderAddr,  \* what c.client.GetLeaderAddr() returns
    stores,      \* the stores argument of SetStoresLabel
    idx,         \* number of stores the loop of SetStoresLabel has passed
    sent,        \* the HTTP requests sent, in order
    outcomes,    \* what became of each request sent
    labelled,    \* the stores on which PD has set the label
    httpResult,  \* what the side-channel operation returned
    httpPc

\* the state of one split call
splitVars == <<mode, tlsConf, callerInfo, origInfo, regionInfo, aliased, keys,
               i, peer, conns, resp, splitErrors, resps, lastReq, prevReq,
               rpcCount, locates, located, result, pc>>

\* the state of the workers calling GetStore
workerVars == <<mu, workerPc, workerArg, storeData, calls>>

\* the state of one side-channel operation
httpVars == <<op, leaderAddr, stores, idx, sent, outcomes, labelled,
              httpResult, httpPc>>

sideVars == <<workerVars, httpVars>>

vars == <<splitVars, storeCache, fetches, workerVars, httpVars>>

NoReq == [regionId |-> -1, epoch |-> Epoch(-1, -1), peer |-> NilPeer,
          keys |-> << >>, locates |-> -1]
NoResp == [kind |-> "none", leader |-> NilPeer, regionId |-> -1,
           regions |-> << >>, left |-> NilRegion]
NoAnswer == [status |-> "none", info |-> NilRegionInfo]
NoResult == [status |-> "none", origin |-> NilRegionInfo, regions |-> << >>,
             errs |-> << >>]

(* ------------------------------------------------------------------ *)
(* Errors                                                              *)
(* ------------------------------------------------------------------ *)

\* errors.Annotatef(berrors.ErrRestoreSplitFailed, "split region failed: err=%v", regionErr)
SplitFailed(kind) == [err |-> "ErrRestoreSplitFailed", cause |-> kind]
\* any other error value
Err(name) == [err |-> name, cause |-> "none"]

\* multierr.Append(splitErrors, err)
multierrAppend(errs, e) == Append(errs, e)

RetryableKinds == {"ServerIsBusy", "StaleCommand"}
FatalKinds == {"RegionNotFound", "EpochNotMatch", "KeyNotInRegion", "Other"}

(* ------------------------------------------------------------------ *)
(* The environment: storage node and metadata service                  *)
(* ------------------------------------------------------------------ *)

\* the boundaries start, k1, ..., kn, end of the children of a split
Bounds(region, ks) == <<region.startKey>> \o ks \o <<region.endKey>>

\* peers of a newly created region: new peer ids on the same stores
NewPeers(region, k) ==
    [n \in 1..Len(region.peers) |->
        [id |-> 10 * k + region.peers[n].id, store |-> region.peers[n].store]]

\* The regions a successful split answers: they partition the region's range
\* at the split keys; exactly one child keeps the region's identifier, the
\* first one (derive = "left") or the last one (derive = "right").
SplitChildren(region, ks, derive) ==
    LET b == Bounds(region, ks)
        n == Len(ks) + 1
        keep == IF derive = "left" THEN 1 ELSE n
    IN [k \in 1..n |->
          [id |-> IF k = keep THEN region.id ELSE 100 + k,
           startKey |-> b[k],
           endKey |-> b[k + 1],
           epoch |-> Epoch(region.epoch.confVer, region.epoch.version + 1),
           peers |-> IF k = keep THEN region.peers ELSE NewPeers(region, k)]]

\* a success carries the flat region list; the deprecated Left field is
\* either unset or the first region of the list
OkResponses(region, ks) ==
    UNION {{[kind |-> "ok", leader |-> NilPeer, regionId |-> region.id,
             regions |-> SplitChildren(region, ks, d), left |-> l] :
               l \in {NilRegion, SplitChildren(region, ks, d)[1]}} :
           d \in {"left", "right"}}

RegionErrorResponse(kind, leader, regionId) ==
    [kind |-> kind, leader |-> leader, regionId |-> regionId,
     regions |-> << >>, left |-> NilRegion]

\* every answer the storage node can give to a split request for `region`
\* addressed to `target`: a NotLeader error names a peer other than the one
\* asked, or no peer
ErrorResponses(region, target) ==
    {RegionErrorResponse("NotLeader", l, region.id) :
        l \in ({P1, P2, P3} \ {target}) \cup {NilPeer}}
    \cup {RegionErrorResponse(k, NilPeer, region.id) :
            k \in RetryableKinds \cup FatalKinds}

\* what PD's GetRegionByID can answer for a known region id: any epoch, a
\* leader that is absent, empty or set, with or without peers
LocatorViews == {<<NilPeer, AllPeers>>, <<ZeroPeer, AllPeers>>,
                 <<P3, AllPeers>>, <<ZeroPeer, << >> >>}
LocatorInfos(id) ==
    {[region |-> [id |-> id, startKey |-> 0, endKey |-> MaxKey,
                  epoch |-> e, peers |-> v[2]],
      leader |-> v[1]] : e \in Epochs, v \in LocatorViews}

(* ------------------------------------------------------------------ *)
(* Pure parts of the client                                            *)
(* ------------------------------------------------------------------ *)

\* checkRegionEpoch(new, old): the new epoch dominates or equals the old one
checkRegionEpoch(new, old) ==
    /\ new.region.epoch.confVer >= old.region.epoch.confVer
    /\ new.region.epoch.version >= old.region.epoch.version

\* sendSplitRegionRequest lines 251-262: the peer to address, NilPeer when
\* the region has neither a usable leader nor a peer
targetPeer(ri) ==
    IF ri.leader # NilPeer /\ ri.leader.id # 0 THEN ri.leader
    ELSE IF Len(ri.region.peers) = 0 THEN NilPeer
    ELSE ri.region.peers[1]

\* SplitRegion lines 136-144
splitRegionPeer(ri) ==
    IF ri.leader # NilPeer THEN ri.leader
    ELSE IF Len(ri.region.peers) = 0 THEN NilPeer
    ELSE ri.region.peers[1]

\* "Assume the leaders will be at the same store": the first peer of the
\* region on the store of ri's leader, nil when ri has no leader
sameStoreLeader(region, ri) ==
    IF ri.leader = NilPeer THEN NilPeer
    ELSE LET hits == {n \in 1..Len(region.peers) :
                        region.peers[n].store = GetStoreId(ri.leader)}
         IN IF hits = {} THEN NilPeer
            ELSE region.peers[CHOOSE n \in hits : \A m \in hits : n <= m]

\* mutant: the origin is taken by position, the first region of the list
withOriginFirst(regions, ri, n) ==
    [origin |-> [region |-> regions[1],
                 leader |-> sameStoreLeader(regions[1], ri)],
     regions |-> [k \in 1..(n - 1) |->
                    [region |-> regions[k + 1],
                     leader |-> sameStoreLeader(regions[k + 1], ri)]]]

\* mutant: the `continue` after the origin is missing
RECURSIVE withOriginKept(_, _, _)
withOriginKept(regions, ri, n) ==
    IF n = 0 THEN [origin |-> NilRegionInfo, regions |-> << >>]
    ELSE LET acc == withOriginKept(regions, ri, n - 1)
             info == [region |-> regions[n],
                      leader |-> sameStoreLeader(regions[n], ri)]
         IN [origin |-> IF regions[n].id = ri.region.id THEN info ELSE acc.origin,
             regions |-> Append(acc.regions, info)]

\* BatchSplitRegionsWithOrigin lines 337-365 over the first n regions
RECURSIVE withOrigin(_, _, _)
withOrigin(regions, ri, n) ==
    IF n = 0 THEN [origin |-> NilRegionInfo, regions |-> << >>]
    ELSE LET acc == withOrigin(regions, ri, n - 1)
             info == [region |-> regions[n],
                      leader |-> sameStoreLeader(regions[n], ri)]
         IN IF regions[n].id = ri.region.id
            THEN [acc EXCEPT !.origin = info]
            ELSE [acc EXCEPT !.regions = Append(@, info)]

\* BatchSplitRegions lines 368-373: the second result of
\* BatchSplitRegionsWithOrigin
BatchSplitRegions(res) == res.regions

(* ------------------------------------------------------------------ *)
(* Initial state: a fresh client and the arguments of one call         *)
(* ------------------------------------------------------------------ *)

CallerInfos ==
    {[region |-> Region0(ps), leader |-> l] :
        ps \in {AllPeers, << >>}, l \in {NilPeer, ZeroPeer, P2}}

\* no worker is calling GetStore
WorkersIdle ==
    /\ mu = NoWorker
    /\ workerPc = [w \in Workers |-> "idle"]
    /\ workerArg = [w \in Workers |-> 0]
    /\ storeData = [id \in StoreIds |-> NoStore]
    /\ calls = << >>

NoHttpResult == [status |-> "none", err |-> "none"]

\* no side-channel operation is called
HttpIdle ==
    /\ op = "none"
    /\ leaderAddr = << >>
    /\ stores = << >>
    /\ idx = 0
    /\ sent = << >>
    /\ outcomes = << >>
    /\ labelled = {}
    /\ httpResult = NoHttpResult
    /\ httpPc = "idle"

\* no split call is made
SplitIdle ==
    /\ mode = "none"
    /\ tlsConf = FALSE
    /\ callerInfo = NilRegionInfo
    /\ origInfo = NilRegionInfo
    /\ regionInfo = NilRegionInfo
    /\ aliased = TRUE
    /\ keys = << >>
    /\ i = 0
    /\ peer = NilPeer
    /\ conns = << >>
    /\ resp = NoResp
    /\ splitErrors = << >>
    /\ resps = << >>
    /\ lastReq = NoReq
    /\ prevReq = NoReq
    /\ rpcCount = 0
    /\ locates = 0
    /\ located = NoAnswer
    /\ result = NoResult
    /\ pc = "idle"

Init ==
    /\ mode \in {"batch", "single"}
    /\ tlsConf \in BOOLEAN
    /\ storeCache = {}
    /\ fetches = << >>
    /\ callerInfo \in CallerInfos
    /\ origInfo = callerInfo
    /\ regionInfo = callerInfo
    /\ aliased = TRUE
    /\ keys \in KeyLists
    /\ (mode = "single" => Len(keys) = 1)
    /\ i = 0
    /\ peer = NilPeer
    /\ conns = << >>
    /\ resp = NoResp
    /\ splitErrors = << >>
    /\ resps = << >>
    /\ lastReq = NoReq
    /\ prevReq = NoReq
    /\ rpcCount = 0
    /\ locates = 0
    /\ located = NoAnswer
    /\ result = NoResult
    /\ pc = "peer"
    /\ WorkersIdle
    /\ HttpIdle

(* ------------------------------------------------------------------ *)
(* Leaving the call                                                    *)
(* ------------------------------------------------------------------ *)

\* mutant: the deferred conn.Close() calls are lost on the error return
ReturnErrorLeak(errs) ==
    /\ result' = [NoResult EXCEPT !.status = "err", !.errs = errs]
    /\ conns' = conns
    /\ pc' = "done"

\* return nil, err: the deferred conn.Close() calls run
ReturnError(errs) ==
    /\ result' = [NoResult EXCEPT !.status = "err", !.errs = errs]
    /\ conns' = << >>
    /\ pc' = "done"

\* a nil pointer dereference: the deferred calls run, nothing is returned
Panic ==
    /\ result' = result
    /\ conns' = << >>
    /\ pc' = "panic"

(* ------------------------------------------------------------------ *)
(* pdClient.GetStore                                                   *)
(* ------------------------------------------------------------------ *)

\* mutant: the id is put into the cache even when the fetch failed
GetStoreCacheAlways(cache, storeID, ok) == cache \cup {storeID}

\* mutant: a fetched store is not put into the cache
GetStoreCacheNone(cache, storeID, ok) == cache

\* GetStore(storeID) with the PD answer `ok`: the cache afterwards
GetStoreCache(cache, storeID, ok) ==
    IF storeID \in cache THEN cache
    ELSE IF ok THEN cache \cup {storeID} ELSE cache

\* GetStore(storeID) asks PD only on a cache miss
GetStoreFetches(cache, fs, storeID) ==
    IF storeID \in cache THEN fs ELSE Append(fs, storeID)

\* GetStore(storeID) fails only when the fetch fails
GetStoreOk(cache, storeID, ok) == storeID \in cache \/ ok

(* ------------------------------------------------------------------ *)
(* pdClient.sendSplitRegionRequest, one action per step of an attempt  *)
(* ------------------------------------------------------------------ *)

\* mutant: the no-peer error is returned without the earlier failures
SelectPeerForgetful ==
    /\ mode = "batch" /\ pc = "peer"
    /\ i < splitRegionMaxRetryTime
    /\ IF targetPeer(regionInfo) = NilPeer
       THEN /\ ReturnError(<<Err("ErrRestoreNoPeer")>>)
            /\ UNCHANGED peer
       ELSE /\ peer' = targetPeer(regionInfo)
            /\ pc' = "store"
            /\ UNCHANGED <<result, conns>>
    /\ UNCHANGED <<sideVars, mode, tlsConf, located, storeCache, fetches, callerInfo, origInfo,
                   regionInfo, aliased, keys, i, resp, splitErrors, resps,
                   lastReq, prevReq, rpcCount, locates>>

\* lines 250-262: loop test and choice of the target peer
SelectPeer ==
    /\ mode = "batch" /\ pc = "peer"
    /\ i < splitRegionMaxRetryTime
    /\ IF targetPeer(regionInfo) = NilPeer
       THEN /\ ReturnError(multierrAppend(splitErrors, Err("ErrRestoreNoPeer")))
            /\ UNCHANGED peer
       ELSE /\ peer' = targetPeer(regionInfo)
            /\ pc' = "store"
            /\ UNCHANGED <<result, conns>>
    /\ UNCHANGED <<sideVars, mode, tlsConf, located, storeCache, fetches, callerInfo, origInfo,
                   regionInfo, aliased, keys, i, resp, splitErrors, resps,
                   lastReq, prevReq, rpcCount, locates>>

\* mutant: a failed store resolution is retried
ResolveStoreRetried ==
    /\ mode = "batch" /\ pc = "store"
    /\ \E ok \in BOOLEAN :
        /\ storeCache' = GetStoreCache(storeCache, GetStoreId(peer), ok)
        /\ fetches' = GetStoreFetches(storeCache, fetches, GetStoreId(peer))
        /\ IF GetStoreOk(storeCache, GetStoreId(peer), ok)
           THEN pc' = "dial" /\ i' = i
           ELSE pc' = "peer" /\ i' = i + 1
    /\ UNCHANGED <<sideVars, mode, tlsConf, located, callerInfo, origInfo, regionInfo, aliased,
                   keys, peer, resp, splitErrors, resps, lastReq, prevReq,
                   rpcCount, locates, result, conns>>

\* lines 263-267: c.GetStore(ctx, storeID)
ResolveStore ==
    /\ mode = "batch" /\ pc = "store"
    /\ \E ok \in BOOLEAN :
        /\ storeCache' = GetStoreCache(storeCache, GetStoreId(peer), ok)
        /\ fetches' = GetStoreFetches(storeCache, fetches, GetStoreId(peer))
        /\ IF GetStoreOk(storeCache, GetStoreId(peer), ok)
           THEN pc' = "dial" /\ UNCHANGED <<result, conns>>
           ELSE ReturnError(multierrAppend(splitErrors, Err("GetStoreFailed")))
    /\ UNCHANGED <<sideVars, mode, tlsConf, located, callerInfo, origInfo, regionInfo, aliased,
                   keys, i, peer, resp, splitErrors, resps, lastReq, prevReq,
                   rpcCount, locates>>

\* lines 268-276: grpc.Dial with TLS when configured; Close is deferred
Dial ==
    /\ mode = "batch" /\ pc = "dial"
    /\ \E ok \in BOOLEAN :
        IF ok
        THEN /\ conns' = Append(conns, [store |-> GetStoreId(peer), tls |-> tlsConf])
             /\ pc' = "send"
             /\ UNCHANGED result
        ELSE ReturnError(multierrAppend(splitErrors, Err("DialFailed")))
    /\ UNCHANGED <<sideVars, mode, tlsConf, located, storeCache, fetches, callerInfo, origInfo,
                   regionInfo, aliased, keys, i, peer, resp, splitErrors, resps,
                   lastReq, prevReq, rpcCount, locates>>

\* splitRegionWithFailpoint lines 236-243: the request of an attempt
splitRequest(ri, target, ks, nLocates) ==
    [regionId |-> ri.region.id, epoch |-> ri.region.epoch, peer |-> target,
     keys |-> ks, locates |-> nLocates]

\* lines 277-281: the split RPC; a transport error ends the call
SendSplit ==
    /\ mode = "batch" /\ pc = "send"
    /\ rpcCount' = rpcCount + 1
    /\ prevReq' = lastReq
    /\ lastReq' = splitRequest(regionInfo, peer, keys, locates)
    /\ \/ /\ ReturnError(multierrAppend(splitErrors, Err("TransportError")))
          /\ UNCHANGED <<resp, resps>>
       \/ \E r \in OkResponses(regionInfo.region, keys)
                     \cup ErrorResponses(regionInfo.region, peer) :
            /\ resp' = r
            /\ resps' = Append(resps, [kind |-> r.kind, leader |-> r.leader])
            /\ pc' = "recv"
            /\ UNCHANGED <<result, conns>>
    /\ UNCHANGED <<sideVars, mode, tlsConf, located, storeCache, fetches, callerInfo, origInfo,
                   regionInfo, aliased, keys, i, peer, splitErrors, locates>>

\* mutant: the region error overwrites the errors accumulated so far
recordRegionErrorLast(errs, r) == <<SplitFailed(r.kind)>>

\* line 286: every region error is appended to splitErrors
recordRegionError(errs, r) == multierrAppend(errs, SplitFailed(r.kind))

\* mutant: the leader named by the NotLeader error is not taken over
OnNotLeaderWithLeaderDropped ==
    /\ mode = "batch" /\ pc = "recv"
    /\ resp.kind = "NotLeader" /\ resp.leader # NilPeer
    /\ splitErrors' = recordRegionError(splitErrors, resp)
    /\ i' = i + 1
    /\ pc' = "peer"
    /\ UNCHANGED <<sideVars, mode, tlsConf, located, storeCache, fetches, origInfo, aliased,
                   keys, peer, conns, resp, resps, lastReq, prevReq, rpcCount,
                   locates, result, regionInfo, callerInfo>>

\* lines 288-290, 302-307: NotLeader naming the new leader
OnNotLeaderWithLeader ==
    /\ mode = "batch" /\ pc = "recv"
    /\ resp.kind = "NotLeader" /\ resp.leader # NilPeer
    /\ splitErrors' = recordRegionError(splitErrors, resp)
    /\ regionInfo' = [regionInfo EXCEPT !.leader = resp.leader]
    /\ callerInfo' = IF aliased THEN [callerInfo EXCEPT !.leader = resp.leader]
                     ELSE callerInfo
    /\ i' = i + 1
    /\ pc' = "peer"
    /\ UNCHANGED <<sideVars, mode, tlsConf, located, storeCache, fetches, origInfo, aliased, keys,
                   peer, conns, resp, resps, lastReq, prevReq, rpcCount,
                   locates, result>>

\* lines 291-301: NotLeader without a leader, c.GetRegionByID(ctx, nl.RegionId)
OnNotLeaderNoLeader ==
    /\ mode = "batch" /\ pc = "recv"
    /\ resp.kind = "NotLeader" /\ resp.leader = NilPeer
    /\ splitErrors' = recordRegionError(splitErrors, resp)
    /\ locates' = locates + 1
    /\ \/ \* GetRegionByID returns a region
          \E new \in LocatorInfos(resp.regionId) :
            /\ located' = [status |-> "ok", info |-> new]
            /\ IF ~checkRegionEpoch(new, regionInfo)
               THEN /\ ReturnError(multierrAppend(splitErrors', Err("ErrKVEpochNotMatch")))
                    /\ UNCHANGED <<regionInfo, aliased, i>>
               ELSE IF new.leader = NilPeer
               THEN \* line 299 reads newRegionInfo.Leader.Id
                    /\ Panic
                    /\ UNCHANGED <<regionInfo, aliased, i>>
               ELSE /\ regionInfo' = new
                    /\ aliased' = FALSE
                    /\ i' = i + 1
                    /\ pc' = "peer"
                    /\ UNCHANGED <<result, conns>>
       \/ \* GetRegionByID returns an error
          /\ located' = [status |-> "err", info |-> NilRegionInfo]
          /\ ReturnError(multierrAppend(splitErrors', Err("FindLeaderFailed")))
          /\ UNCHANGED <<regionInfo, aliased, i>>
       \/ \* GetRegionByID returns nil, nil: the epoch of a nil RegionInfo is read
          /\ located' = [status |-> "nil", info |-> NilRegionInfo]
          /\ Panic
          /\ UNCHANGED <<regionInfo, aliased, i>>
    /\ UNCHANGED <<sideVars, mode, tlsConf, storeCache, fetches, callerInfo, origInfo,
                   keys, peer, resp, resps, lastReq, prevReq, rpcCount>>

\* mutant: a transient region error makes the call forget the leader
OnRetryableLeaderLost ==
    /\ mode = "batch" /\ pc = "recv"
    /\ resp.kind \in RetryableKinds
    /\ splitErrors' = recordRegionError(splitErrors, resp)
    /\ regionInfo' = [regionInfo EXCEPT !.leader = NilPeer]
    /\ i' = i + 1
    /\ pc' = "peer"
    /\ UNCHANGED <<sideVars, mode, tlsConf, located, storeCache, fetches, callerInfo, origInfo,
                   aliased, keys, peer, conns, resp, resps, lastReq,
                   prevReq, rpcCount, locates, result>>

\* lines 312-321: ServerIsBusy or StaleCommand
OnRetryable ==
    /\ mode = "batch" /\ pc = "recv"
    /\ resp.kind \in RetryableKinds
    /\ splitErrors' = recordRegionError(splitErrors, resp)
    /\ i' = i + 1
    /\ pc' = "peer"
    /\ UNCHANGED <<sideVars, mode, tlsConf, located, storeCache, fetches, callerInfo, origInfo,
                   regionInfo, aliased, keys, peer, conns, resp, resps, lastReq,
                   prevReq, rpcCount, locates, result>>

\* mutant: every region error is retried
OnOtherRegionErrorRetried ==
    /\ mode = "batch" /\ pc = "recv"
    /\ resp.kind \notin {"ok", "NotLeader"} \cup RetryableKinds
    /\ splitErrors' = recordRegionError(splitErrors, resp)
    /\ i' = i + 1
    /\ pc' = "peer"
    /\ UNCHANGED <<sideVars, mode, tlsConf, located, storeCache, fetches, callerInfo,
                   origInfo, regionInfo, aliased, keys, peer, conns, resp, resps,
                   lastReq, prevReq, rpcCount, locates, result>>

\* line 322: any other region error
OnOtherRegionError ==
    /\ mode = "batch" /\ pc = "recv"
    /\ resp.kind \notin {"ok", "NotLeader"} \cup RetryableKinds
    /\ splitErrors' = recordRegionError(splitErrors, resp)
    /\ ReturnError(splitErrors')
    /\ UNCHANGED <<sideVars, mode, tlsConf, located, storeCache, fetches, callerInfo, origInfo,
                   regionInfo, aliased, keys, i, peer, resp, resps, lastReq,
                   prevReq, rpcCount, locates>>

\* line 326: the attempt budget is used up
RetriesExhausted ==
    /\ mode = "batch" /\ pc = "peer"
    /\ i >= splitRegionMaxRetryTime
    /\ ReturnError(splitErrors)
    /\ UNCHANGED <<sideVars, mode, tlsConf, located, storeCache, fetches, callerInfo, origInfo,
                   regionInfo, aliased, keys, i, peer, resp, splitErrors, resps,
                   lastReq, prevReq, rpcCount, locates>>

\* mutant: a success after failed attempts is reported as a failure
BatchSplitRegionsWithOriginStrict ==
    /\ mode = "batch" /\ pc = "recv"
    /\ resp.kind = "ok"
    /\ LET res == withOrigin(resp.regions, callerInfo, Len(resp.regions))
       IN result' = IF splitErrors = << >>
                    THEN [status |-> "ok", origin |-> res.origin,
                          regions |-> res.regions, errs |-> << >>]
                    ELSE [NoResult EXCEPT !.status = "err", !.errs = splitErrors]
    /\ conns' = << >>
    /\ pc' = "done"
    /\ UNCHANGED <<sideVars, mode, tlsConf, located, storeCache, fetches, callerInfo, origInfo,
                   regionInfo, aliased, keys, i, peer, resp, splitErrors, resps,
                   lastReq, prevReq, rpcCount, locates>>

\* line 324 and BatchSplitRegionsWithOrigin lines 332-365: the response is
\* returned and split into the origin and the new regions, against the
\* RegionInfo the caller passed
BatchSplitRegionsWithOrigin ==
    /\ mode = "batch" /\ pc = "recv"
    /\ resp.kind = "ok"
    /\ LET res == withOrigin(resp.regions, callerInfo, Len(resp.regions))
       IN result' = [status |-> "ok", origin |-> res.origin,
                     regions |-> res.regions, errs |-> << >>]
    /\ conns' = << >>
    /\ pc' = "done"
    /\ UNCHANGED <<sideVars, mode, tlsConf, located, storeCache, fetches, callerInfo, origInfo,
                   regionInfo, aliased, keys, i, peer, resp, splitErrors, resps,
                   lastReq, prevReq, rpcCount, locates>>

(* ------------------------------------------------------------------ *)
(* pdClient.SplitRegion: one attempt, one key                          *)
(* ------------------------------------------------------------------ *)

\* lines 136-144
SplitRegionSelectPeer ==
    /\ mode = "single" /\ pc = "peer"
    /\ IF splitRegionPeer(regionInfo) = NilPeer
       THEN /\ ReturnError(<<Err("ErrRestoreNoPeer")>>)
            /\ UNCHANGED peer
       ELSE /\ peer' = splitRegionPeer(regionInfo)
            /\ pc' = "store"
            /\ UNCHANGED <<result, conns>>
    /\ UNCHANGED <<sideVars, mode, tlsConf, located, storeCache, fetches, callerInfo, origInfo,
                   regionInfo, aliased, keys, i, resp, splitErrors, resps,
                   lastReq, prevReq, rpcCount, locates>>

\* lines 145-149
SplitRegionGetStore ==
    /\ mode = "single" /\ pc = "store"
    /\ \E ok \in BOOLEAN :
        /\ storeCache' = GetStoreCache(storeCache, GetStoreId(peer), ok)
        /\ fetches' = GetStoreFetches(storeCache, fetches, GetStoreId(peer))
        /\ IF GetStoreOk(storeCache, GetStoreId(peer), ok)
           THEN pc' = "dial" /\ UNCHANGED <<result, conns>>
           ELSE ReturnError(<<Err("GetStoreFailed")>>)
    /\ UNCHANGED <<sideVars, mode, tlsConf, located, callerInfo, origInfo, regionInfo, aliased,
                   keys, i, peer, resp, splitErrors, resps, lastReq, prevReq,
                   rpcCount, locates>>

\* lines 150-154: grpc.Dial(store.GetAddress(), grpc.WithInsecure())
SplitRegionDial ==
    /\ mode = "single" /\ pc = "dial"
    /\ \E ok \in BOOLEAN :
        IF ok
        THEN /\ conns' = Append(conns, [store |-> GetStoreId(peer), tls |-> FALSE])
             /\ pc' = "send"
             /\ UNCHANGED result
        ELSE ReturnError(<<Err("DialFailed")>>)
    /\ UNCHANGED <<sideVars, mode, tlsConf, located, storeCache, fetches, callerInfo, origInfo,
                   regionInfo, aliased, keys, i, peer, resp, splitErrors, resps,
                   lastReq, prevReq, rpcCount, locates>>

\* lines 156-167: the split RPC with SplitKey
SplitRegionSend ==
    /\ mode = "single" /\ pc = "send"
    /\ rpcCount' = rpcCount + 1
    /\ prevReq' = lastReq
    /\ lastReq' = splitRequest(regionInfo, peer, keys, locates)
    /\ \/ /\ ReturnError(<<Err("TransportError")>>)
          /\ UNCHANGED <<resp, resps>>
       \/ \E r \in OkResponses(regionInfo.region, keys)
                     \cup ErrorResponses(regionInfo.region, peer) :
            /\ resp' = r
            /\ resps' = Append(resps, [kind |-> r.kind, leader |-> r.leader])
            /\ pc' = "recv"
            /\ UNCHANGED <<result, conns>>
    /\ UNCHANGED <<sideVars, mode, tlsConf, located, storeCache, fetches, callerInfo, origInfo,
                   regionInfo, aliased, keys, i, peer, splitErrors, locates>>

\* lines 178-187: Left, or else the first region that starts where the
\* region passed in starts
splitRegionNewRegion(r, ri) ==
    IF r.left # NilRegion THEN r.left
    ELSE LET hits == {n \in 1..Len(r.regions) :
                        r.regions[n].startKey = ri.region.startKey}
         IN IF hits = {} THEN NilRegion
            ELSE r.regions[CHOOSE n \in hits : \A m \in hits : n <= m]

\* lines 168-204
SplitRegionReturn ==
    /\ mode = "single" /\ pc = "recv"
    /\ IF resp.kind # "ok"
       THEN ReturnError(<<SplitFailed(resp.kind)>>)
       ELSE IF splitRegionNewRegion(resp, regionInfo) = NilRegion
       THEN ReturnError(<<Err("ErrRestoreSplitFailed")>>)
       ELSE /\ LET new == splitRegionNewRegion(resp, regionInfo)
               IN result' = [status |-> "ok", origin |-> NilRegionInfo,
                             regions |-> <<[region |-> new,
                                            leader |-> sameStoreLeader(new, regionInfo)]>>,
                             errs |-> << >>]
            /\ conns' = << >>
            /\ pc' = "done"
    /\ UNCHANGED <<sideVars, mode, tlsConf, located, storeCache, fetches, callerInfo, origInfo,
                   regionInfo, aliased, keys, i, peer, resp, splitErrors, resps,
                   lastReq, prevReq, rpcCount, locates>>

(* ------------------------------------------------------------------ *)
(* pdClient.GetStore called by several workers, one action per step    *)
(* ------------------------------------------------------------------ *)

\* a worker calls GetStore(ctx, storeID)
GetStoreCall(w) ==
    /\ workerPc[w] = "idle"
    /\ Len(calls) + Cardinality({v \in Workers : workerPc[v] # "idle"}) < MaxCalls
    /\ \E id \in StoreIds : workerArg' = [workerArg EXCEPT ![w] = id]
    /\ workerPc' = [workerPc EXCEPT ![w] = "lock"]
    /\ UNCHANGED <<splitVars, httpVars, storeCache, fetches, mu, storeData, calls>>

\* mutant: c.mu.Lock() does not wait for the holder
GetStoreLockUnguarded(w) ==
    /\ workerPc[w] = "lock"
    /\ mu' = w
    /\ workerPc' = [workerPc EXCEPT ![w] = "check"]
    /\ UNCHANGED <<splitVars, httpVars, storeCache, fetches, workerArg, storeData,
                   calls>>

\* line 93: c.mu.Lock()
GetStoreLock(w) ==
    /\ workerPc[w] = "lock"
    /\ mu = NoWorker
    /\ mu' = w
    /\ workerPc' = [workerPc EXCEPT ![w] = "check"]
    /\ UNCHANGED <<splitVars, httpVars, storeCache, fetches, workerArg, storeData,
                   calls>>

\* lines 94-98: the cache is read; a hit returns the cached store and the
\* deferred c.mu.Unlock() runs
GetStoreCheck(w) ==
    /\ workerPc[w] = "check"
    /\ IF workerArg[w] \in storeCache
       THEN /\ calls' = Append(calls, [worker |-> w, id |-> workerArg[w],
                                       ok |-> TRUE,
                                       store |-> storeData[workerArg[w]],
                                       fetched |-> 0])
            /\ mu' = NoWorker
            /\ workerPc' = [workerPc EXCEPT ![w] = "idle"]
       ELSE /\ workerPc' = [workerPc EXCEPT ![w] = "fetch"]
            /\ UNCHANGED <<calls, mu>>
    /\ UNCHANGED <<splitVars, httpVars, storeCache, fetches, workerArg, storeData>>

\* lines 99-104: c.client.GetStore; an error is returned, a store is cached
\* and returned; the deferred c.mu.Unlock() runs
GetStoreFetch(w) ==
    /\ workerPc[w] = "fetch"
    /\ \E ok \in BOOLEAN, a \in 1..MaxStoreAddr :
         LET id == workerArg[w]
             st == IF ok THEN Store(id, a) ELSE NoStore
         IN /\ storeCache' = GetStoreCache(storeCache, id, ok)
            /\ fetches' = GetStoreFetches(storeCache, fetches, id)
            /\ storeData' = IF ok THEN [storeData EXCEPT ![id] = st]
                            ELSE storeData
            /\ calls' = Append(calls, [worker |-> w, id |-> id,
                                       ok |-> GetStoreOk(storeCache, id, ok),
                                       store |-> st, fetched |-> 1])
    /\ mu' = NoWorker
    /\ workerPc' = [workerPc EXCEPT ![w] = "idle"]
    /\ UNCHANGED <<splitVars, httpVars, workerArg>>

StoreInit ==
    /\ SplitIdle
    /\ storeCache = {}
    /\ fetches = << >>
    /\ WorkersIdle
    /\ HttpIdle

StoreNext ==
    \E w \in Workers :
        \/ GetStoreCall(w)
        \/ GetStoreLock(w)
        \/ GetStoreCheck(w)
        \/ GetStoreFetch(w)

StoreSpec == StoreInit /\ [][StoreNext]_vars

(* ------------------------------------------------------------------ *)
(* The HTTP side channel: placement rules and store labels             *)
(* ------------------------------------------------------------------ *)

RECURSIVE TrimRight(_)
\* strings.TrimRight(addr, "/")
TrimRight(a) ==
    IF a # << >> /\ a[Len(a)] = "/" THEN TrimRight(SubSeq(a, 1, Len(a) - 1))
    ELSE a

\* lines 475-481
getPDAPIAddr(addr) ==
    TrimRight(IF addr # << >> /\ addr[1] \notin {"http://", "https://"}
              THEN <<"http://">> \o addr
              ELSE addr)

\* what can become of a request of Set/DeletePlacementRule and
\* SetStoresLabel: "transport": Do returns an error; "ok": a 2xx response, the
\* body is closed; "status": a response with an error status, the body is
\* closed; "close": a 2xx response and closing the body fails
WriteOutcomes == {"transport", "ok", "status", "close"}

\* what can become of the request of GetPlacementRule: "read": reading the
\* body fails; "json": a 2xx response whose body does not decode;
\* "status": an error status whose body decodes; "statusjson": an error
\* status whose body does not decode
ReadOutcomes == {"transport", "ok", "read", "json", "status", "statusjson"}

HttpRequest(method, addr, target) ==
    [method |-> method, addr |-> getPDAPIAddr(addr), target |-> target]

HttpOk == [status |-> "ok", err |-> "none"]
HttpErr(name) == [status |-> "err", err |-> name]

\* the side-channel operation returns
HttpReturn(res) ==
    /\ httpResult' = res
    /\ httpPc' = "done"

\* lines 399-420
GetPlacementRule ==
    /\ op = "get" /\ httpPc = "call"
    /\ IF getPDAPIAddr(leaderAddr) = << >>
       THEN /\ HttpReturn(HttpErr("ErrRestoreSplitFailed"))
            /\ UNCHANGED <<sent, outcomes>>
       ELSE \E o \in ReadOutcomes :
              /\ sent' = Append(sent, HttpRequest("GET", leaderAddr, "rule"))
              /\ outcomes' = Append(outcomes, o)
              /\ HttpReturn(CASE o = "transport" -> HttpErr("DoFailed")
                              [] o = "read" -> HttpErr("ReadAllFailed")
                              [] o \in {"json", "statusjson"} -> HttpErr("UnmarshalFailed")
                              [] OTHER -> HttpOk)
    /\ UNCHANGED <<splitVars, workerVars, storeCache, fetches, op, leaderAddr,
                   stores, idx, labelled>>

\* SetPlacementRule lines 422-434 and DeletePlacementRule lines 436-447: the
\* request is sent once and only an error of Do or of Body.Close is returned
writeRule(method) ==
    /\ httpPc = "call"
    /\ IF getPDAPIAddr(leaderAddr) = << >>
       THEN /\ HttpReturn(HttpErr("ErrPDLeaderNotFound"))
            /\ UNCHANGED <<sent, outcomes>>
       ELSE \E o \in WriteOutcomes :
              /\ sent' = Append(sent, HttpRequest(method, leaderAddr, "rule"))
              /\ outcomes' = Append(outcomes, o)
              /\ HttpReturn(CASE o = "transport" -> HttpErr("DoFailed")
                              [] o = "close" -> HttpErr("CloseFailed")
                              [] OTHER -> HttpOk)
    /\ UNCHANGED <<splitVars, workerVars, storeCache, fetches, op, leaderAddr,
                   stores, idx, labelled>>

\* lines 422-434
SetPlacementRule == op = "set" /\ writeRule("POST")

\* lines 436-447
DeletePlacementRule == op = "delete" /\ writeRule("DELETE")

\* SetStoresLabel lines 452-456: the leader address
SetStoresLabelAddr ==
    /\ op = "labels" /\ httpPc = "call"
    /\ IF getPDAPIAddr(leaderAddr) = << >>
       THEN HttpReturn(HttpErr("ErrPDLeaderNotFound"))
       ELSE httpPc' = "loop" /\ UNCHANGED httpResult
    /\ UNCHANGED <<splitVars, workerVars, storeCache, fetches, op, leaderAddr,
                   stores, idx, sent, outcomes, labelled>>

\* SetStoresLabel lines 457-471: one round of the loop
SetStoresLabelStore ==
    /\ op = "labels" /\ httpPc = "loop"
    /\ idx < Len(stores)
    /\ \E o \in WriteOutcomes :
         /\ sent' = Append(sent, HttpRequest("POST", leaderAddr, stores[idx + 1]))
         /\ outcomes' = Append(outcomes, o)
         /\ labelled' = IF o \in {"ok", "close"}
                        THEN labelled \cup {stores[idx + 1]} ELSE labelled
         /\ IF o \in {"transport", "close"}
            THEN /\ HttpReturn(HttpErr(IF o = "transport" THEN "DoFailed"
                                       ELSE "CloseFailed"))
                 /\ UNCHANGED idx
            ELSE /\ idx' = idx + 1
                 /\ UNCHANGED <<httpResult, httpPc>>
    /\ UNCHANGED <<splitVars, workerVars, storeCache, fetches, op, leaderAddr,
                   stores>>

\* SetStoresLabel line 472: the loop is over
SetStoresLabelDone ==
    /\ op = "labels" /\ httpPc = "loop"
    /\ idx >= Len(stores)
    /\ HttpReturn(HttpOk)
    /\ UNCHANGED <<splitVars, workerVars, storeCache, fetches, op, leaderAddr,
                   stores, idx, sent, outcomes, labelled>>

HttpInit ==
    /\ SplitIdle
    /\ storeCache = {}
    /\ fetches = << >>
    /\ WorkersIdle
    /\ op \in {"set", "delete", "get", "labels"}
    /\ leaderAddr \in LeaderAddrs
    /\ stores \in IF op = "labels" THEN StoreLists ELSE {<< >>}
    /\ idx = 0
    /\ sent = << >>
    /\ outcomes = << >>
    /\ labelled = {}
    /\ httpResult = NoHttpResult
    /\ httpPc = "call"

HttpNext ==
    \/ SetPlacementRule
    \/ DeletePlacementRule
    \/ GetPlacementRule
    \/ SetStoresLabelAddr
    \/ SetStoresLabelStore
    \/ SetStoresLabelDone

HttpSpec == HttpInit /\ [][HttpNext]_vars

(* ------------------------------------------------------------------ *)
(* Specification                                                       *)
(* ------------------------------------------------------------------ *)

Next ==
    \/ SelectPeer
    \/ ResolveStore
    \/ Dial
    \/ SendSplit
    \/ OnNotLeaderWithLeader
    \/ OnNotLeaderNoLeader
    \/ OnRetryable
    \/ OnOtherRegionError
    \/ RetriesExhausted
    \/ BatchSplitRegionsWithOrigin
    \/ SplitRegionSelectPeer
    \/ SplitRegionGetStore
    \/ SplitRegionDial
    \/ SplitRegionSend
    \/ SplitRegionReturn

Spec == Init /\ [][Next]_vars

\* every step of a call is taken: the call is one sequential function
FairSpec == Spec /\ WF_vars(Next)

(* ------------------------------------------------------------------ *)
(* Properties                                                          *)
(* ------------------------------------------------------------------ *)

Last(q) == q[Len(q)]

\* the call has returned to its caller
Returned == pc = "done"

\* the error entries of the region errors received so far, in order
RegionErrorEntries == [k \in 1..Len(resps) |-> SplitFailed(resps[k].kind)]

\* the failures that end a call without being a region error
TerminalErrors ==
    {Err("ErrRestoreNoPeer"), Err("GetStoreFailed"), Err("DialFailed"),
     Err("TransportError"), Err("FindLeaderFailed"), Err("ErrKVEpochNotMatch")}

EpochGE(a, b) == a.confVer >= b.confVer /\ a.version >= b.version
EpochLT(a, b) == EpochGE(b, a) /\ a # b

\* C1: when every attempt of a batch split reaches the storage node and is
\* answered ServerIsBusy, the call issues exactly 4 split RPCs and returns an
\* error whose entries are the 4 failures, one per attempt.
C1_RetryBudget ==
    (/\ Returned /\ mode = "batch"
     /\ rpcCount > 0 /\ Len(resps) = rpcCount
     /\ \A k \in 1..Len(resps) : resps[k].kind = "ServerIsBusy"
     /\ Err("DialFailed") \notin Range(result.errs))
    => /\ rpcCount = 4
       /\ result.status = "err"
       /\ result.errs = [k \in 1..4 |-> SplitFailed("ServerIsBusy")]

C1_Witness ==
    /\ Returned /\ mode = "batch" /\ rpcCount = 4 /\ Len(resps) = 4
    /\ \A k \in 1..4 : resps[k].kind = "ServerIsBusy"
    /\ Len(result.errs) = 4

\* C2: once a region error other than NotLeader, ServerIsBusy and
\* StaleCommand has been handled, the call has returned an error made of
\* that failure and every earlier failure of the call, no further split RPC
\* and no locator call was made, and a first such response leaves exactly
\* one recorded attempt.
C2_NoRetryOnFatal ==
    (/\ Len(resps) > 0 /\ Last(resps).kind \in FatalKinds
     /\ pc # "recv")
    => /\ Returned
       /\ result.status = "err"
       /\ result.errs = RegionErrorEntries
       /\ rpcCount = Len(resps)
       /\ locates = lastReq.locates
       /\ (Len(resps) = 1 => rpcCount = 1 /\ Len(result.errs) = 1)

C2_Witness ==
    /\ Returned /\ mode = "batch" /\ Len(resps) = 3
    /\ Last(resps).kind = "RegionNotFound"
    /\ resps[1].kind = "ServerIsBusy" /\ resps[2].kind = "NotLeader"
    /\ Len(result.errs) = 3

\* C3: the split RPC that follows a NotLeader answer naming a leader is
\* addressed to that leader, over a connection to its store, and no
\* GetRegionByID call lies between the two RPCs.
C3_LeaderRepairWithHint ==
    (/\ mode = "batch" /\ rpcCount >= 2
     /\ resps[rpcCount - 1].kind = "NotLeader"
     /\ resps[rpcCount - 1].leader # NilPeer)
    => /\ lastReq.peer = resps[rpcCount - 1].leader
       /\ lastReq.locates = prevReq.locates
       /\ (pc = "recv" => Last(conns).store = resps[rpcCount - 1].leader.store)

C3_Witness ==
    /\ mode = "batch" /\ rpcCount = 2 /\ pc = "recv"
    /\ resps[1].kind = "NotLeader" /\ resps[1].leader = P3
    /\ prevReq.peer = P2 /\ lastReq.peer = P3

\* C4: after a NotLeader answer without a leader the region is looked up by
\* id; when the answer's epoch dominates or equals the epoch of the working
\* region the working RegionInfo becomes the answer and the next split RPC
\* is sent for it; when it is strictly lesser the call has returned an
\* error ending in the epoch mismatch and no further split RPC was made.
C4_ReResolve ==
    /\ (/\ mode = "batch" /\ located.status = "ok"
        /\ locates > lastReq.locates)
       => IF EpochGE(located.info.region.epoch, lastReq.epoch)
          THEN pc # "panic" /\ regionInfo = located.info
          ELSE EpochLT(located.info.region.epoch, lastReq.epoch)
               => /\ Returned /\ result.status = "err"
                  /\ Last(result.errs) = Err("ErrKVEpochNotMatch")
                  /\ rpcCount = Len(resps)
    /\ (/\ mode = "batch" /\ rpcCount >= 2
        /\ resps[rpcCount - 1].kind = "NotLeader"
        /\ resps[rpcCount - 1].leader = NilPeer
        /\ locates = lastReq.locates)
       => /\ lastReq.regionId = located.info.region.id
          /\ lastReq.epoch = located.info.region.epoch
          /\ lastReq.peer = targetPeer(located.info)
          /\ lastReq.locates = prevReq.locates + 1

\* C5 as stated: after a successful split of R exactly one region of the
\* result carries R's id, it is the origin, and it contains R's start key.
C5_OriginHasStartKey ==
    (Returned /\ result.status = "ok")
    => LET all == (IF result.origin = NilRegionInfo THEN << >>
                   ELSE <<result.origin>>) \o result.regions
           R == origInfo.region
       IN /\ Cardinality({k \in 1..Len(all) : all[k].region.id = R.id}) = 1
          /\ (mode = "batch" =>
                /\ result.origin.region.id = R.id
                /\ result.origin.region.startKey <= R.startKey
                /\ R.startKey < result.origin.region.endKey)

\* C5 amended: after a successful BatchSplitRegionsWithOrigin of R the origin
\* is the one region of the response that carries R's id, none of the new
\* regions carries it, and that is so with and without the Left field.
C5_OriginById ==
    (Returned /\ mode = "batch" /\ result.status = "ok")
    => LET R == origInfo.region
           hits == {n \in 1..Len(resp.regions) : resp.regions[n].id = R.id}
       IN /\ Cardinality(hits) = 1
          /\ result.origin # NilRegionInfo
          /\ \A n \in hits : result.origin.region = resp.regions[n]
          /\ \A k \in 1..Len(result.regions) : result.regions[k].region.id # R.id
          /\ Len(result.regions) = Len(resp.regions) - 1

C5_Witness ==
    /\ Returned /\ mode = "batch" /\ result.status = "ok"
    /\ resp.left = NilRegion
    /\ result.origin.region.id = origInfo.region.id
    /\ result.origin.region.startKey # origInfo.region.startKey

KeysOf(r) == r.startKey..(r.endKey - 1)

\* the ranges of the regions of `infos` cover [s, e) with no gap and no overlap
Partitions(infos, s, e) ==
    /\ \A k \in 1..Len(infos) : infos[k].region.startKey < infos[k].region.endKey
    /\ \A j, k \in 1..Len(infos) :
          j # k => KeysOf(infos[j].region) \cap KeysOf(infos[k].region) = {}
    /\ UNION {KeysOf(infos[k].region) : k \in 1..Len(infos)} = s..(e - 1)

\* C6 as stated: the regions BatchSplitRegions returns reconstruct the range
\* of the region that was split.
C6_BatchSplitPartitions ==
    (Returned /\ mode = "batch" /\ result.status = "ok")
    => Partitions(BatchSplitRegions(result),
                  regionInfo.region.startKey, regionInfo.region.endKey)

\* C6 amended: the origin together with the new regions of
\* BatchSplitRegionsWithOrigin reconstruct the range, cut at the split keys;
\* BatchSplitRegions returns these regions without the origin.
C6_OriginAndNewPartition ==
    (Returned /\ mode = "batch" /\ result.status = "ok")
    => /\ result.origin # NilRegionInfo
       /\ Partitions(<<result.origin>> \o result.regions,
                     regionInfo.region.startKey, regionInfo.region.endKey)
       /\ {r.region.startKey : r \in Range(<<result.origin>> \o result.regions)}
            = {regionInfo.region.startKey} \cup Range(keys)
       /\ Len(BatchSplitRegions(result)) = Len(keys)
       /\ result.origin \notin Range(BatchSplitRegions(result))

C6_Witness ==
    /\ Returned /\ mode = "batch" /\ result.status = "ok"
    /\ Len(keys) = 2 /\ Len(result.regions) = 2
    /\ result.origin # NilRegionInfo

\* C7: a split call never panics.
C7_NeverPanics == pc # "panic"

\* C8: whenever a split call has returned an error, the entries of that
\* error are, in the order received, one entry for every region error the
\* attempts of the call were answered with (none dropped, none overwritten),
\* followed by at most one terminal error: the transport, store-resolution,
\* connection, locator, no-peer or epoch-mismatch failure that ended the
\* call; there is no terminal entry only when the call ended on a region
\* error that is not retried or on the exhausted attempt budget.
C8_ErrorAccumulation ==
    (Returned /\ result.status = "err")
    => LET n == Len(resps)
           errs == result.errs
       IN /\ \A k \in 1..n : resps[k].kind # "ok"
          /\ Len(errs) \in {n, n + 1}
          /\ Len(errs) >= 1
          /\ \A k \in 1..n : errs[k] = SplitFailed(resps[k].kind)
          /\ SubSeq(errs, 1, n) = RegionErrorEntries
          /\ (Len(errs) = n + 1 => errs[n + 1] \in TerminalErrors)
          /\ (Len(errs) = n =>
                \/ mode = "single"
                \/ Last(resps).kind \in FatalKinds
                \/ rpcCount = splitRegionMaxRetryTime)

C8_Witness ==
    /\ Returned /\ result.status = "err" /\ mode = "batch"
    /\ Len(resps) = 3 /\ Len(result.errs) = 4
    /\ resps[1].kind = "NotLeader" /\ resps[2].kind = "StaleCommand"
    /\ Last(result.errs) = Err("ErrKVEpochNotMatch")

\* C9: a split call issues at most 4 split RPCs and ends by returning.
C9_BoundedAndReturns ==
    /\ rpcCount <= 4
    /\ pc # "panic"

\* C10: every split RPC goes to the leader of the working RegionInfo when it
\* is set with a non-zero id, else to the first peer; a leader with id zero
\* is never the target.
C10_PeerSelection ==
    pc = "recv"
    => LET usable == regionInfo.leader # NilPeer /\ regionInfo.leader.id # 0
       IN /\ (usable => lastReq.peer = regionInfo.leader)
          /\ (~usable => /\ Len(regionInfo.region.peers) > 0
                         /\ lastReq.peer = regionInfo.region.peers[1])
          /\ lastReq.peer.id # 0

\* C11: the split RPC that follows a ServerIsBusy or StaleCommand answer
\* carries the same region id, the same epoch and the same split keys and
\* goes to the same peer as the RPC that was answered so, and no
\* GetRegionByID call lies between the two.
C11_TransientRetrySameRequest ==
    (/\ mode = "batch" /\ rpcCount >= 2
     /\ resps[rpcCount - 1].kind \in RetryableKinds)
    => /\ lastReq.regionId = prevReq.regionId
       /\ lastReq.epoch = prevReq.epoch
       /\ lastReq.peer = prevReq.peer
       /\ lastReq.keys = prevReq.keys
       /\ lastReq.locates = prevReq.locates

C11_Witness ==
    /\ mode = "batch" /\ rpcCount = 3 /\ pc = "recv"
    /\ resps[1].kind = "NotLeader" /\ resps[1].leader = P3
    /\ resps[2].kind = "StaleCommand"
    /\ prevReq.peer = P3 /\ lastReq.peer = P3

\* C12: the RegionInfo the caller passed has, at every point of the call and
\* after it, the value it had when the call started.
C12_CallerInfoUntouched == callerInfo = origInfo

\* C13: after a successful batch split the leader of every region of the
\* result is the peer of that region on the store of the leader of the
\* working RegionInfo of the successful attempt, and is absent when there is
\* no such peer or no such leader.
C13_LeaderFromWorkingInfo ==
    (Returned /\ mode = "batch" /\ result.status = "ok")
    => \A r \in Range(<<result.origin>> \o result.regions) :
          r.leader = sameStoreLeader(r.region, regionInfo)

\* C14: the region a split operation returns for the region that was split
\* carries its id, and the result of the operation is the same whatever the
\* Left field of the response holds (unset, or any region of the list), the
\* list of regions being the same.
C14_ResultIgnoresLeft ==
    (pc = "recv" /\ resp.kind = "ok")
    => LET lefts == {NilRegion} \cup Range(resp.regions)
       IN /\ (mode = "single" =>
                /\ splitRegionNewRegion(resp, regionInfo).id = origInfo.region.id
                /\ \A l \in lefts :
                     splitRegionNewRegion([resp EXCEPT !.left = l], regionInfo)
                       = splitRegionNewRegion(resp, regionInfo))
          /\ (mode = "batch" =>
                \A l \in lefts :
                   LET alt == [resp EXCEPT !.left = l]
                   IN withOrigin(alt.regions, callerInfo, Len(alt.regions))
                        = withOrigin(resp.regions, callerInfo, Len(resp.regions)))

\* C17: once a split call has left (by a return or by a panic) none of the
\* connections it opened is open.
C17_ConnectionsReleased == pc \in {"done", "panic"} => conns = << >>

C17_Witness ==
    /\ Returned /\ mode = "batch" /\ result.status = "err"
    /\ rpcCount = 4 /\ Len(resps) = 4
    /\ conns = << >>

\* C18: every connection a split call opens uses TLS exactly when the client
\* holds a TLS configuration.
C18_TLSWhenConfigured ==
    \A n \in 1..Len(conns) : conns[n].tls = tlsConf

\* the GetStore calls that have returned for one store id, as positions of calls
CallsFor(id) == {n \in 1..Len(calls) : calls[n].id = id}

\* C15 as stated: any two GetStore calls for the same store id return the
\* same store and make at most one fetch between them.
C15_TwoCallsOneFetch ==
    \A id \in StoreIds : \A j, k \in CallsFor(id) :
        j < k => /\ calls[j].ok /\ calls[k].ok
                 /\ calls[j].store = calls[k].store
                 /\ calls[j].fetched + calls[k].fetched <= 1

\* C15 amended: any two GetStore calls for the same store id that both
\* return a store return the same store and make at most one fetch between
\* them; a call that returns an error has made a fetch and leaves the id
\* uncached unless another call cached it.
C15_TwoGoodCallsOneFetch ==
    \A id \in StoreIds :
        /\ \A j, k \in CallsFor(id) :
             (j < k /\ calls[j].ok /\ calls[k].ok)
             => /\ calls[j].store = calls[k].store
                /\ calls[j].fetched + calls[k].fetched <= 1
        /\ \A j \in CallsFor(id) :
             ~calls[j].ok
             => /\ calls[j].fetched = 1
                /\ \A k \in CallsFor(id) : (k < j => ~calls[k].ok)
        /\ id \in storeCache
             => \E j \in CallsFor(id) : calls[j].ok /\ calls[j].fetched = 1

C15_Witness ==
    /\ Len(calls) = 3
    /\ calls[1].id = calls[2].id /\ calls[2].id = calls[3].id
    /\ ~calls[1].ok /\ calls[1].fetched = 1
    /\ calls[2].ok /\ calls[2].fetched = 1
    /\ calls[3].ok /\ calls[3].fetched = 0
    /\ calls[2].worker # calls[3].worker

\* C16: at most one worker is between c.mu.Lock() and the return of
\* GetStore, that worker holds the mutex, and all the workers that were
\* given a store for one id were given the same store.
C16_CacheMutualExclusion ==
    /\ Cardinality({w \in Workers : workerPc[w] \in {"check", "fetch"}}) <= 1
    /\ \A w \in Workers : workerPc[w] \in {"check", "fetch"} => mu = w
    /\ (mu # NoWorker => workerPc[mu] \in {"check", "fetch"})
    /\ \A j, k \in 1..Len(calls) :
          (calls[j].id = calls[k].id /\ calls[j].ok /\ calls[k].ok)
          => calls[j].store = calls[k].store

C16_Witness ==
    /\ workerPc["w1"] = "fetch" /\ workerPc["w2"] = "lock"
    /\ workerArg["w1"] = workerArg["w2"]
    /\ mu = "w1"
    /\ \E n \in 1..Len(calls) : calls[n].id # workerArg["w1"] /\ calls[n].ok

\* C19: SetStoresLabel sends its requests one store at a time in list order;
\* when the request for a store fails the call has returned an error, that
\* request is the last one sent and the stores before it are labelled; when
\* no request fails every listed store was sent one request.
C19_LabelsSequentialStopAtFailure ==
    (op = "labels" /\ httpPc = "done" /\ getPDAPIAddr(leaderAddr) # << >>)
    => LET failed == {n \in 1..Len(outcomes) : outcomes[n] # "ok"}
       IN /\ Len(sent) <= Len(stores)
          /\ \A n \in 1..Len(sent) : sent[n].target = stores[n]
          /\ (failed # {} =>
                /\ httpResult.status = "err"
                /\ failed = {Len(sent)}
                /\ \A n \in 1..(Len(sent) - 1) : stores[n] \in labelled)
          /\ (failed = {} => Len(sent) = Len(stores))

\* C20: a placement rule operation sends at most one request; with an empty
\* leader address it sends none and returns an error; and when its request
\* failed it returns an error.
C20_PlacementFailuresSurfaced ==
    (op \in {"get", "set", "delete"} /\ httpPc = "done")
    => /\ Len(sent) <= 1
       /\ (getPDAPIAddr(leaderAddr) = << >>
             => sent = << >> /\ httpResult.status = "err")
       /\ (\A n \in 1..Len(outcomes) : outcomes[n] # "ok")
             => httpResult.status = "err"

\* C21: an attempt of a batch split that starts with a working RegionInfo
\* without a usable leader and without peers ends the call in that step:
\* the error returned is the failures of the earlier attempts followed by
\* the no-peer error, no store is resolved, no connection is opened and no
\* split RPC is issued.
C21_NoPeerFailsAtOnce ==
    [][(/\ mode = "batch" /\ pc = "peer" /\ i < splitRegionMaxRetryTime
        /\ (regionInfo.leader = NilPeer \/ regionInfo.leader.id = 0)
        /\ regionInfo.region.peers = << >>)
       => /\ pc' = "done"
          /\ result'.status = "err"
          /\ result'.errs = RegionErrorEntries \o <<Err("ErrRestoreNoPeer")>>
          /\ fetches' = fetches /\ storeCache' = storeCache
          /\ Len(conns') <= Len(conns)
          /\ rpcCount' = rpcCount]_vars

C21_Witness ==
    /\ Returned /\ mode = "batch" /\ result.status = "err"
    /\ Len(resps) = 2 /\ rpcCount = 2
    /\ Last(resps).kind = "NotLeader" /\ Last(resps).leader = NilPeer
    /\ regionInfo.region.peers = << >> /\ regionInfo.leader = ZeroPeer
    /\ result.errs = RegionErrorEntries \o <<Err("ErrRestoreNoPeer")>>

\* the failures of the infrastructure that end a batch split
InfraErrors ==
    {Err("GetStoreFailed"), Err("DialFailed"), Err("TransportError"),
     Err("FindLeaderFailed")}

\* C22: once a store resolution, a connection setup, a split RPC transport
\* or a GetRegionByID lookup of a batch split has failed, the call has
\* returned, no split RPC was issued after the failure, and the error is the
\* region errors of the earlier attempts followed by that failure.
C22_InfraFailureEndsCall ==
    mode = "batch"
    => /\ (fetches # << >> /\ Last(fetches) \notin storeCache)
          => /\ Returned /\ result.status = "err"
             /\ result.errs = RegionErrorEntries \o <<Err("GetStoreFailed")>>
             /\ rpcCount = Len(resps)
       /\ rpcCount > Len(resps)
          => /\ Returned /\ result.status = "err"
             /\ result.errs = RegionErrorEntries \o <<Err("TransportError")>>
             /\ rpcCount = Len(resps) + 1
       /\ located.status = "err"
          => /\ Returned /\ result.status = "err"
             /\ result.errs = RegionErrorEntries \o <<Err("FindLeaderFailed")>>
             /\ rpcCount = Len(resps)
             /\ locates = lastReq.locates + 1
       /\ (Returned /\ result.status = "err" /\ Last(result.errs) \in InfraErrors)
          => /\ result.errs = RegionErrorEntries \o <<Last(result.errs)>>
             /\ rpcCount <= Len(resps) + 1

C22_Witness ==
    /\ Returned /\ mode = "batch" /\ result.status = "err"
    /\ Len(resps) = 2 /\ rpcCount = 2
    /\ Len(fetches) = 3 /\ Last(fetches) \notin storeCache
    /\ result.errs = RegionErrorEntries \o <<Err("GetStoreFailed")>>

\* C23: once a batch split has received a response without a region error
\* the call has returned without an error, its result is made of the regions
\* of that response, that response is the only one of the call without a
\* region error, and no split RPC was issued after it.
C23_SuccessEndsLoop ==
    (/\ mode = "batch" /\ Len(resps) > 0 /\ Last(resps).kind = "ok"
     /\ pc # "recv")
    => /\ Returned
       /\ result.status = "ok" /\ result.errs = << >>
       /\ {r.region : r \in Range(<<result.origin>> \o result.regions)}
            = Range(resp.regions)
       /\ rpcCount = Len(resps)
       /\ \A k \in 1..(Len(resps) - 1) : resps[k].kind # "ok"

C23_Witness ==
    /\ Returned /\ mode = "batch" /\ result.status = "ok"
    /\ Len(resps) = 3 /\ rpcCount = 3
    /\ resps[1].kind = "NotLeader" /\ resps[2].kind = "ServerIsBusy"
    /\ resps[3].kind = "ok"
    /\ Len(splitErrors) = 2

\* C24: a step of the client never removes an id from the store cache and
\* never changes the store of a cached id; the cache gains an id only in a
\* step that fetches that id, and then the call returns the store now
\* cached; a call that returns an error has left the cache as it was.
C24_StoreCacheOnlyGrows ==
    [][/\ storeCache \subseteq storeCache'
       /\ \A id \in storeCache : storeData'[id] = storeData[id]
       /\ storeCache' # storeCache
          => /\ Len(calls') = Len(calls) + 1
             /\ storeCache' = storeCache \cup {Last(calls').id}
             /\ fetches' = Append(fetches, Last(calls').id)
             /\ Last(calls').ok /\ Last(calls').fetched = 1
             /\ storeData'[Last(calls').id] = Last(calls').store
       /\ (Len(calls') = Len(calls) + 1 /\ ~Last(calls').ok)
          => /\ storeCache' = storeCache /\ storeData' = storeData
             /\ fetches' = Append(fetches, Last(calls').id)]_vars

C24_Witness ==
    /\ Len(calls) = 3 /\ Len(fetches) = 2
    /\ calls[1].ok /\ calls[1].fetched = 1
    /\ ~calls[2].ok /\ calls[2].id # calls[1].id
    /\ calls[3].ok /\ calls[3].fetched = 0 /\ calls[3].id = calls[1].id
    /\ storeCache = {calls[1].id}
    /\ storeData[calls[1].id] = calls[1].store

\* C25: at every point of a split call at most one connection to a storage
\* node is open.
C25_OneConnectionAtATime == Len(conns) <= 1

====
